---- MODULE Spec2Model ----
(***************************************************************************)
(* A model of co2key (src/src/main.rs): the key-state ledger, the axis and *)
(* button rules, the controller mappings, the mapping table and the        *)
(* dispatch loop of main.                                                  *)
(*                                                                         *)
(* f32 axis and button values are modelled in tenths: 3 is 0.3, -5 is      *)
(* -0.5.  Only comparisons are made on them, so the scaling keeps every    *)
(* branch the code takes.  An Option is a sequence of length 0 (None) or 1 *)
(* (Some(v)).                                                              *)
(***************************************************************************)
EXTENDS Integers, Sequences, FiniteSets, TLC

VARIABLES config, gamepads, key_state, sink, os, out, evals, last, scn,
          discrete

vars ==
    <<config, gamepads, key_state, sink, os, out, evals, last, scn, discrete>>

(* ------------------------------ bounds -------------------------------- *)

\* Number of gamepads the input library knows; their ids are 0..MaxGamepads-1.
MaxGamepads == 1

GamepadIds == 0 .. (MaxGamepads - 1)

\* The axes and buttons a gamepad of the model reports.
Axes == {"LeftStickX"}

Buttons == {"South"}

\* The axis values (tenths) events carry: those of scenario A.
AxisValues == {-5, 0, 1, 5}

\* The button values (tenths) events carry: released, fully pressed.
ButtonValues == {0, 10}

None == <<>>

Some(v) == <<v>>

(* --------------------------- configuration ---------------------------- *)

\* threshold: 0.3 of every AxisMapping of main
MainThreshold == 3

\* button_pressed > 0.5
ButtonThreshold == 5

AxisMapping(axis, high_key, low_key, threshold) ==
    [axis |-> axis, high_key |-> high_key, low_key |-> low_key,
     threshold |-> threshold]

ButtonMapping(button, key) == [button |-> button, key |-> key]

ControllerMapping(controller_id, axis_mappings, button_mappings) ==
    [controller_id |-> controller_id, axis_mappings |-> axis_mappings,
     button_mappings |-> button_mappings]

\* The table of main, restricted to the axes and buttons of the model.
MainConfig ==
    [controller_mappings |-> <<
        ControllerMapping(0,
            <<AxisMapping("LeftStickX", "KeyD", "KeyA", MainThreshold)>>,
            <<ButtonMapping("South", "KeyE")>>),
        ControllerMapping(1,
            <<AxisMapping("LeftStickX", "RightArrow", "LeftArrow", MainThreshold)>>,
            <<ButtonMapping("South", "Space")>>) >>]

\* One device, an axis rule and a button rule that map the same key.
SharedKeyConfig ==
    [controller_mappings |-> <<
        ControllerMapping(0,
            <<AxisMapping("LeftStickX", "KeyD", "KeyA", MainThreshold)>>,
            <<ButtonMapping("South", "KeyD")>>) >>]

\* Two devices whose button rules map the same key.
CrossDeviceConfig ==
    [controller_mappings |-> <<
        ControllerMapping(0, <<>>, <<ButtonMapping("South", "KeyE")>>),
        ControllerMapping(1, <<>>, <<ButtonMapping("South", "KeyE")>>) >>]

\* One device, two axis rules and two button rules, all keys different.
WideConfig ==
    [controller_mappings |-> <<
        ControllerMapping(0,
            <<AxisMapping("LeftStickX", "KeyD", "KeyA", MainThreshold),
              AxisMapping("LeftStickX", "KeyW", "KeyS", MainThreshold)>>,
            <<ButtonMapping("South", "KeyE"),
              ButtonMapping("South", "Space")>>) >>]

Tables == {MainConfig, SharedKeyConfig, CrossDeviceConfig, WideConfig}

\* What axis_data and button_data may return to a rule called on its own:
\* nothing, an event's value, or exactly a threshold.
AxisData ==
    {None} \cup {Some(v) : v \in AxisValues \cup {MainThreshold, -MainThreshold}}

ButtonData == {None} \cup {Some(v) : v \in ButtonValues \cup {ButtonThreshold}}

\* The mapping of main for controller 0, alone.
Device0Config ==
    [controller_mappings |-> <<MainConfig.controller_mappings[1]>>]

\* The tables whose rules and keys the operations are called on one by one.
UnitTables == {Device0Config, SharedKeyConfig}

Range(s) == {s[i] : i \in 1 .. Len(s)}

AxisRules(cfg) ==
    UNION {Range(cm.axis_mappings) : cm \in Range(cfg.controller_mappings)}

ButtonRules(cfg) ==
    UNION {Range(cm.button_mappings) : cm \in Range(cfg.controller_mappings)}

\* The keys a table names.
KeysOf(cfg) ==
    {m.high_key : m \in AxisRules(cfg)} \cup {m.low_key : m \in AxisRules(cfg)}
        \cup {m.key : m \in ButtonRules(cfg)}

Keys == UNION {KeysOf(cfg) : cfg \in Tables}

(* ---------------------------- the key sink ---------------------------- *)

KeyPress(key) == [dir |-> "down", key |-> key]

KeyRelease(key) == [dir |-> "up", key |-> key]

\* rdev::simulate: the event is handed to the sink, which remembers the last
\* transition of each key.  The injection fails for the keys of st.fail: the
\* key at the operating system stays as it was.  The result is dropped by
\* the callers.
simulate(st, ev) ==
    [st EXCEPT !.sink[ev.key] = ev.dir,
               !.out = Append(@, ev),
               !.os[ev.key] = IF ev.key \in st.fail THEN @ ELSE ev.dir]

(* ---------------------------- the ledger ------------------------------ *)

\* HashMap::entry(key).or_insert(v): the map with key present.
or_insert(ks, key, v) ==
    IF key \in DOMAIN ks THEN ks
    ELSE [k \in DOMAIN ks \cup {key} |-> IF k = key THEN v ELSE ks[k]]

\* ledger[key] is true (absent counts as up).
IsDown(ks, key) == key \in DOMAIN ks /\ ks[key]

\* key_press_once without its test of the ledger.
key_press_always(st, key) ==
    LET ks == or_insert(st.key_state, key, FALSE)
    IN  [simulate(st, KeyPress(key)) EXCEPT
            !.key_state = [ks EXCEPT ![key] = TRUE]]

\* key_press_once that sets the entry only when the injection succeeded.
key_press_rollback(st, key) ==
    LET ks == or_insert(st.key_state, key, FALSE)
    IN  IF ~ks[key]
        THEN [simulate(st, KeyPress(key)) EXCEPT
                 !.key_state = [ks EXCEPT ![key] = key \notin st.fail]]
        ELSE [st EXCEPT !.key_state = ks]

key_press_once(st, key) ==
    LET ks == or_insert(st.key_state, key, FALSE)
    IN  IF ~ks[key]
        THEN [simulate(st, KeyPress(key)) EXCEPT
                 !.key_state = [ks EXCEPT ![key] = TRUE]]
        ELSE [st EXCEPT !.key_state = ks]

\* key_release_once that leaves the ledger entry as it was.
key_release_no_clear(st, key) ==
    LET ks == or_insert(st.key_state, key, FALSE)
    IN  IF ks[key]
        THEN [simulate(st, KeyRelease(key)) EXCEPT !.key_state = ks]
        ELSE [st EXCEPT !.key_state = ks]

\* key_release_once without its test of the ledger.
key_release_always(st, key) ==
    LET ks == or_insert(st.key_state, key, FALSE)
    IN  [simulate(st, KeyRelease(key)) EXCEPT
            !.key_state = [ks EXCEPT ![key] = FALSE]]

\* key_release_once that clears every entry of the ledger.
key_release_clears_all(st, key) ==
    LET ks == or_insert(st.key_state, key, FALSE)
    IN  IF ks[key]
        THEN [simulate(st, KeyRelease(key)) EXCEPT
                 !.key_state = [k \in DOMAIN ks |-> FALSE]]
        ELSE [st EXCEPT !.key_state = ks]

key_release_once(st, key) ==
    LET ks == or_insert(st.key_state, key, FALSE)
    IN  IF ks[key]
        THEN [simulate(st, KeyRelease(key)) EXCEPT
                 !.key_state = [ks EXCEPT ![key] = FALSE]]
        ELSE [st EXCEPT !.key_state = ks]

(* ------------------------------ rules --------------------------------- *)

\* Option::map_or(0.0, |data| data.value())
map_or(default, opt) == IF opt = None THEN default ELSE opt[1]

\* The axis rule with the thresholds themselves in the press branches.
AxisMapping_inclusive(st, m, gamepad) ==
    LET v == map_or(0, gamepad.axes[m.axis])
    IN  IF v <= -m.threshold THEN key_press_once(st, m.low_key)
        ELSE IF v >= m.threshold THEN key_press_once(st, m.high_key)
        ELSE key_release_once(key_release_once(st, m.low_key), m.high_key)

\* The axis rule whose press branches release the opposite key.
AxisMapping_release_opposite(st, m, gamepad) ==
    LET v == map_or(0, gamepad.axes[m.axis])
    IN  IF v < -m.threshold
        THEN key_press_once(key_release_once(st, m.high_key), m.low_key)
        ELSE IF v > m.threshold
        THEN key_press_once(key_release_once(st, m.low_key), m.high_key)
        ELSE key_release_once(key_release_once(st, m.low_key), m.high_key)

\* The axis rule that reads a missing axis as -1.0.
AxisMapping_missing_low(st, m, gamepad) ==
    LET v == map_or(-10, gamepad.axes[m.axis])
    IN  IF v < -m.threshold THEN key_press_once(st, m.low_key)
        ELSE IF v > m.threshold THEN key_press_once(st, m.high_key)
        ELSE key_release_once(key_release_once(st, m.low_key), m.high_key)

AxisMapping_apply_mapping(st, m, gamepad) ==
    LET v == map_or(0, gamepad.axes[m.axis])
    IN  IF v < -m.threshold THEN key_press_once(st, m.low_key)
        ELSE IF v > m.threshold THEN key_press_once(st, m.high_key)
        ELSE key_release_once(key_release_once(st, m.low_key), m.high_key)

\* The button rule that presses at exactly 0.5.
ButtonMapping_inclusive(st, m, gamepad) ==
    LET button_pressed == map_or(0, gamepad.buttons[m.button])
    IN  IF button_pressed >= ButtonThreshold THEN key_press_once(st, m.key)
        ELSE key_release_once(st, m.key)

ButtonMapping_apply_mapping(st, m, gamepad) ==
    LET button_pressed == map_or(0, gamepad.buttons[m.button])
    IN  IF button_pressed > ButtonThreshold THEN key_press_once(st, m.key)
        ELSE key_release_once(st, m.key)

RECURSIVE ApplyAxisMappings(_, _, _)
ApplyAxisMappings(st, ms, gamepad) ==
    IF ms = <<>> THEN st
    ELSE ApplyAxisMappings(AxisMapping_apply_mapping(st, Head(ms), gamepad),
                           Tail(ms), gamepad)

RECURSIVE ApplyButtonMappings(_, _, _)
ApplyButtonMappings(st, ms, gamepad) ==
    IF ms = <<>> THEN st
    ELSE ApplyButtonMappings(ButtonMapping_apply_mapping(st, Head(ms), gamepad),
                             Tail(ms), gamepad)

\* A call of ControllerMapping::apply_mapping is noted in st.evals: the
\* gamepad, the mapping, and whether the call went on to the rules.
Evaluated(st, cm, gamepad, applied) ==
    [st EXCEPT !.evals = Append(@, [gamepad |-> gamepad.id, cm |-> cm,
                                    applied |-> applied])]

\* The controller mapping without its test of the gamepad's id.
ControllerMapping_no_filter(st, cm, gamepad) ==
    ApplyButtonMappings(
        ApplyAxisMappings(Evaluated(st, cm, gamepad, TRUE),
                          cm.axis_mappings, gamepad),
        cm.button_mappings, gamepad)

ControllerMapping_apply_mapping(st, cm, gamepad) ==
    IF cm.controller_id # gamepad.id THEN Evaluated(st, cm, gamepad, FALSE)
    ELSE ApplyButtonMappings(
             ApplyAxisMappings(Evaluated(st, cm, gamepad, TRUE),
                               cm.axis_mappings, gamepad),
             cm.button_mappings, gamepad)

RECURSIVE ApplyControllerMappings(_, _, _)
ApplyControllerMappings(st, cms, gamepad) ==
    IF cms = <<>> THEN st
    ELSE ApplyControllerMappings(
             ControllerMapping_apply_mapping(st, Head(cms), gamepad),
             Tail(cms), gamepad)

\* The table that evaluates its first mapping only.
Config_first_only(st, cfg, gamepad) ==
    ControllerMapping_apply_mapping(st, Head(cfg.controller_mappings), gamepad)

Config_apply_mapping(st, cfg, gamepad) ==
    ApplyControllerMappings(st, cfg.controller_mappings, gamepad)

(* -------------------------- the dispatch loop ------------------------- *)

\* The Gamepad handle of id: its id and the cached axis and button data.
Gamepad(gps, id) ==
    [id |-> id, axes |-> gps[id].axes, buttons |-> gps[id].buttons]

\* for (_id, gamepad) in gilrs.gamepads(): ids from..MaxGamepads-1 in order.
RECURSIVE ForGamepads(_, _, _, _)
ForGamepads(st, cfg, gps, from) ==
    IF from \notin GamepadIds THEN st
    ELSE ForGamepads(Config_apply_mapping(st, cfg, Gamepad(gps, from)),
                     cfg, gps, from + 1)

\* The events next_event_blocking yields.  "Other" stands for the events
\* that change no axis or button value (Connected, ButtonRepeated, Dropped).
Events ==
    [kind : {"AxisChanged"}, id : GamepadIds, ctl : Axes, value : AxisValues]
        \cup [kind : {"ButtonChanged"}, id : GamepadIds, ctl : Buttons,
              value : ButtonValues]
        \cup [kind : {"Other"}, id : GamepadIds]

\* The cached gamepad state after next_event_blocking has returned ev.
next_event(gps, ev) ==
    IF ev.kind = "AxisChanged"
    THEN [gps EXCEPT ![ev.id].axes[ev.ctl] = Some(ev.value)]
    ELSE IF ev.kind = "ButtonChanged"
    THEN [gps EXCEPT ![ev.id].buttons[ev.ctl] = Some(ev.value)]
    ELSE gps

\* What the ledger, the sink and the emissions of one handler run are
\* threaded through.
State(ks, sk) ==
    [key_state |-> ks, sink |-> sk, out |-> <<>>, os |-> os, fail |-> {},
     evals |-> <<>>]

\* The same, with the injection failing for the keys of fail.
StateFailing(ks, sk, fail) == [State(ks, sk) EXCEPT !.fail = fail]

NoCall == [op |-> "none"]

\* Scenario A: the values of LeftStickX on device 0, in order.
ScenarioA == <<0, 5, 5, -5, 1>>

\* How far the run has followed scenario A and nothing else (-1: it left it).
ScenarioStep(s, ev) ==
    IF /\ s >= 0
       /\ s < Len(ScenarioA)
       /\ ev = [kind |-> "AxisChanged", id |-> 0, ctl |-> "LeftStickX",
                value |-> ScenarioA[s + 1]]
    THEN s + 1
    ELSE -1

\* One turn of the loop of main: an event arrives, every gamepad is
\* evaluated against the whole table.
Turn(ev) ==
    LET gps == next_event(gamepads, ev)
        st  == ForGamepads(State(key_state, sink), config, gps, 0)
    IN  /\ gamepads' = gps
        /\ key_state' = st.key_state
        /\ sink' = st.sink
        /\ os' = st.os
        /\ out' = st.out
        /\ evals' = st.evals
        /\ last' = [op |-> "dispatch",
                    same |-> (last.op = "dispatch" /\ gps = gamepads)]
        /\ scn' = ScenarioStep(scn, ev)

Dispatch(ev) == Turn(ev) /\ UNCHANGED <<config, discrete>>

\* The ledger, the sink and the last emissions of a discrete-event loop
\* that is given the same events.
DiscreteState(st) ==
    [key_state |-> st.key_state, sink |-> st.sink, out |-> st.out]

InitWith(tables) ==
    /\ config \in tables
    /\ gamepads = [id \in GamepadIds |->
                      [axes |-> [a \in Axes |-> None],
                       buttons |-> [b \in Buttons |-> None]]]
    /\ key_state = <<>>
    /\ sink = [k \in Keys |-> "none"]
    /\ os = [k \in Keys |-> "up"]
    /\ out = <<>>
    /\ evals = <<>>
    /\ last = NoCall
    /\ scn = 0
    /\ discrete = DiscreteState(State(<<>>, [k \in Keys |-> "none"]))

Init == InitWith(Tables)

Next == \E ev \in Events : Dispatch(ev)

Spec == Init /\ [][Next]_vars

(* ------ snapshot dispatch and discrete-event dispatch side by side ------ *)

\* Discrete-event mode is described by the specification only (4.2, 4.3b,
\* 4.5); main.rs has the snapshot loop alone.

\* The axis rule given one axis event: it ignores the axes it is not
\* configured for, and takes the three-way branch on the event's value.
Discrete_axis_evaluate(st, m, axis, value) ==
    IF m.axis # axis THEN st
    ELSE IF value < -m.threshold THEN key_press_once(st, m.low_key)
    ELSE IF value > m.threshold THEN key_press_once(st, m.high_key)
    ELSE key_release_once(key_release_once(st, m.low_key), m.high_key)

\* The button rule given one button event: ButtonPressed presses and
\* ButtonReleased releases without asking the ledger, which is set to the
\* transition emitted (the ledger reflects the last emitted transition).
Discrete_button_evaluate(st, m, button, pressed) ==
    IF m.button # button THEN st
    ELSE [simulate(st, IF pressed THEN KeyPress(m.key) ELSE KeyRelease(m.key))
             EXCEPT !.key_state =
                        [or_insert(st.key_state, m.key, FALSE)
                            EXCEPT ![m.key] = pressed]]

RECURSIVE Discrete_axis_rules(_, _, _, _)
Discrete_axis_rules(st, ms, axis, value) ==
    IF ms = <<>> THEN st
    ELSE Discrete_axis_rules(Discrete_axis_evaluate(st, Head(ms), axis, value),
                             Tail(ms), axis, value)

RECURSIVE Discrete_button_rules(_, _, _, _)
Discrete_button_rules(st, ms, button, pressed) ==
    IF ms = <<>> THEN st
    ELSE Discrete_button_rules(
             Discrete_button_evaluate(st, Head(ms), button, pressed),
             Tail(ms), button, pressed)

\* The event's device id is a position in the table: the nth device has the
\* nth mapping, and only the rules of the event's axis or button are
\* evaluated.  A device past the end of the table has no mapping.
Discrete_dispatch(st, cfg, ev) ==
    LET cms == cfg.controller_mappings
    IN  IF ev.id + 1 > Len(cms) THEN st
        ELSE IF ev.kind = "AxisChanged"
        THEN Discrete_axis_rules(st, cms[ev.id + 1].axis_mappings,
                                 ev.ctl, ev.value)
        ELSE Discrete_button_rules(st, cms[ev.id + 1].button_mappings,
                                   ev.ctl, ev.value > ButtonThreshold)

\* The events that report a physical change: a value other than the one the
\* control had (0.0 before its first report).
Changes(gps, ev) ==
    \/ /\ ev.kind = "AxisChanged"
       /\ ev.value # map_or(0, gps[ev.id].axes[ev.ctl])
    \/ /\ ev.kind = "ButtonChanged"
       /\ ev.value # map_or(0, gps[ev.id].buttons[ev.ctl])

\* One physical change, given to the loop of main and to the discrete loop.
BothModes(ev) ==
    /\ Changes(gamepads, ev)
    /\ Turn(ev)
    /\ discrete' = DiscreteState(
           Discrete_dispatch(State(discrete.key_state, discrete.sink),
                             config, ev))
    /\ UNCHANGED config

\* A table whose only mapping is for controller 1.
ShiftedConfig ==
    [controller_mappings |-> <<MainConfig.controller_mappings[2]>>]

ModeTables == {MainConfig, SharedKeyConfig, ShiftedConfig}

InitModes == InitWith(ModeTables)

NextModes == \E ev \in Events : BothModes(ev)

SpecModes == InitModes /\ [][NextModes]_vars

(* ------------------- the operations called one by one ----------------- *)

\* What a call leaves in the variables.
Called(st, call) ==
    /\ key_state' = st.key_state
    /\ sink' = st.sink
    /\ os' = st.os
    /\ out' = st.out
    /\ evals' = st.evals
    /\ last' = call
    /\ UNCHANGED <<config, gamepads, scn, discrete>>

\* Whether the call before this one was the same operation on the same key.
Again(op, key) == last.op = op /\ last.key = key

PressOnce(key) ==
    Called(key_press_once(State(key_state, sink), key),
           [op |-> "press", key |-> key,
            was_down |-> IsDown(key_state, key), again |-> Again("press", key)])

ReleaseOnce(key) ==
    Called(key_release_once(State(key_state, sink), key),
           [op |-> "release", key |-> key,
            was_down |-> IsDown(key_state, key), again |-> Again("release", key)])

\* A gamepad that reports data for the axis and d for the button.
Snapshot(id, data, d) ==
    [id |-> id, axes |-> [a \in Axes |-> data], buttons |-> [b \in Buttons |-> d]]

EvalAxisRule(m, data) ==
    Called(AxisMapping_apply_mapping(State(key_state, sink), m,
                                     Snapshot(0, data, None)),
           [op |-> "axis", rule |-> m, data |-> data])

EvalButtonRule(m, data) ==
    Called(ButtonMapping_apply_mapping(State(key_state, sink), m,
                                       Snapshot(0, None, data)),
           [op |-> "button", rule |-> m, data |-> data])

NextUnit ==
    \/ \E key \in KeysOf(config) : PressOnce(key)
    \/ \E key \in KeysOf(config) : ReleaseOnce(key)
    \/ \E m \in AxisRules(config), data \in AxisData : EvalAxisRule(m, data)
    \/ \E m \in ButtonRules(config), data \in ButtonData : EvalButtonRule(m, data)

InitUnit == InitWith(UnitTables)

SpecUnit == InitUnit /\ [][NextUnit]_vars

(* ------------- the ledger operations with a failing sink ------------- *)

\* key_press_once while the injection of key fails (failed) or works.
PressOnceFailing(key, failed) ==
    Called(key_press_once(
               StateFailing(key_state, sink, IF failed THEN {key} ELSE {}), key),
           [op |-> "press", key |-> key, was_down |-> IsDown(key_state, key),
            again |-> Again("press", key), failed |-> failed])

ReleaseOnceFailing(key, failed) ==
    Called(key_release_once(
               StateFailing(key_state, sink, IF failed THEN {key} ELSE {}), key),
           [op |-> "release", key |-> key, was_down |-> IsDown(key_state, key),
            again |-> Again("release", key), failed |-> failed])

NextFail ==
    \/ \E key \in KeysOf(config), failed \in BOOLEAN :
          PressOnceFailing(key, failed)
    \/ \E key \in KeysOf(config), failed \in BOOLEAN :
          ReleaseOnceFailing(key, failed)

SpecFail == InitUnit /\ [][NextFail]_vars

(* ------------- the mappings called on a gamepad of any id ------------- *)

\* The ids a gamepad handed to a mapping may have: those of the connected
\* gamepads and one more.
SnapshotIds == 0 .. MaxGamepads

\* The gamepads handed to a mapping: each reports nothing or an event's value.
Snapshots ==
    {Snapshot(id, data, d) :
        id \in SnapshotIds,
        data \in {None} \cup {Some(v) : v \in AxisValues},
        d \in {None} \cup {Some(v) : v \in ButtonValues}}

\* One device, two axis rules and a button rule, all keys different.
ThreeRuleConfig ==
    [controller_mappings |-> <<
        ControllerMapping(0,
            <<AxisMapping("LeftStickX", "KeyD", "KeyA", MainThreshold),
              AxisMapping("LeftStickX", "KeyW", "KeyS", MainThreshold)>>,
            <<ButtonMapping("South", "KeyE")>>) >>]

\* The tables whose mappings are called on these gamepads.
MappingTables ==
    {Device0Config, SharedKeyConfig, CrossDeviceConfig, ThreeRuleConfig}

EvalController(cm, gamepad) ==
    Called(ControllerMapping_apply_mapping(State(key_state, sink), cm, gamepad),
           [op |-> "controller", cm |-> cm, gamepad |-> gamepad])

EvalTable(gamepad) ==
    Called(Config_apply_mapping(State(key_state, sink), config, gamepad),
           [op |-> "table", gamepad |-> gamepad])

NextMapping ==
    \/ \E cm \in Range(config.controller_mappings), gamepad \in Snapshots :
          EvalController(cm, gamepad)
    \/ \E gamepad \in Snapshots : EvalTable(gamepad)

InitMapping == InitWith(MappingTables)

SpecMapping == InitMapping /\ [][NextMapping]_vars

(* ------------------------------ claims -------------------------------- *)

\* The transitions of evs, emitted in order to a sink whose last transition
\* per key is sk, alternate per key and start with a key-down.
RECURSIVE Alternates(_, _)
Alternates(sk, evs) ==
    \/ evs = <<>>
    \/ /\ IF Head(evs).dir = "down" THEN sk[Head(evs).key] # "down"
          ELSE sk[Head(evs).key] = "down"
       /\ Alternates([sk EXCEPT ![Head(evs).key] = Head(evs).dir], Tail(evs))

HasDir(evs, dir) == \E i \in 1 .. Len(evs) : evs[i].dir = dir

\* C1: over every run of dispatches from the empty ledger, the transitions
\* emitted for a key alternate and begin with a key-down: each dispatch's
\* emissions continue the alternation from what the sink saw last.
C1_Alternation == [][Alternates(sink, out')]_vars

\* A dispatch emitted a key-down and a key-up for one key, after an earlier
\* key-down for it.
C1_Witness ==
    /\ last.op = "dispatch"
    /\ \E i, j \in 1 .. Len(out) :
          /\ i < j
          /\ out[i].key = out[j].key
          /\ out[i].dir = "up"
          /\ out[j].dir = "down"

\* C2: for every key, the ledger holds true exactly when the last
\* transition emitted for the key was a key-down.
C2_LedgerReflectsSink ==
    \A k \in Keys : IsDown(key_state, k) <=> sink[k] = "down"

\* One key is down and another has been pressed and released.
C2_Witness ==
    \E k1, k2 \in Keys :
        /\ IsDown(key_state, k1)
        /\ sink[k2] = "up"
        /\ k2 \in DOMAIN key_state
        /\ ~key_state[k2]

\* C3: key_press_once on a key that is up or absent emits one key-down and
\* sets the entry; on a key that is down it emits nothing and leaves the
\* ledger as it was; the second of two calls in a row emits nothing, so the
\* two emit one key-down.
C3_PressIdempotent ==
    [][last'.op = "press" =>
        LET k == last'.key
        IN  /\ IsDown(key_state, k) =>
                 out' = <<>> /\ key_state' = key_state
            /\ ~IsDown(key_state, k) =>
                 /\ out' = <<KeyPress(k)>>
                 /\ IsDown(key_state', k)
                 /\ \A o \in DOMAIN key_state \ {k} :
                       o \in DOMAIN key_state' /\ key_state'[o] = key_state[o]
            /\ last'.again =>
                 /\ out' = <<>>
                 /\ ~last.was_down => out = <<KeyPress(k)>>]_vars

\* The second of two presses in a row: nothing emitted, the key is down.
C3_Witness ==
    /\ last.op = "press"
    /\ last.again
    /\ last.was_down
    /\ out = <<>>
    /\ IsDown(key_state, last.key)

\* C4: key_release_once on a key that is down emits one key-up and clears
\* the entry; on a key that is up or absent it emits nothing; the second of
\* two calls in a row emits nothing, so the two emit one key-up if the key
\* was down and none otherwise.
C4_ReleaseIdempotent ==
    [][last'.op = "release" =>
        LET k == last'.key
        IN  /\ IsDown(key_state, k) =>
                 /\ out' = <<KeyRelease(k)>>
                 /\ k \in DOMAIN key_state'
                 /\ ~key_state'[k]
            /\ ~IsDown(key_state, k) =>
                 out' = <<>> /\ ~IsDown(key_state', k)
            /\ last'.again =>
                 /\ out' = <<>>
                 /\ out = IF last.was_down THEN <<KeyRelease(k)>> ELSE <<>>]_vars

\* The second of two releases in a row on a key that had been pressed:
\* nothing emitted, the key is up.
C4_Witness ==
    /\ last.op = "release"
    /\ last.again
    /\ sink[last.key] = "up"
    /\ out = <<>>

\* What scenario A says each of its dispatches emits.
ExpectedA ==
    << <<>>,
       <<KeyPress("KeyD")>>,
       <<>>,
       <<KeyRelease("KeyD"), KeyPress("KeyA")>>,
       <<KeyRelease("KeyA")>> >>

\* C5: under the table of main, the dispatches of scenario A (LeftStickX of
\* device 0 at 0.0, 0.5, 0.5, -0.5, 0.1) emit nothing, key-down D, nothing,
\* key-up D then key-down A, key-up A.
C5_ScenarioA ==
    (config = MainConfig /\ scn \in 1 .. Len(ScenarioA)) => out = ExpectedA[scn]

\* C6: after a dispatch under the table of main, the low key and the high
\* key of an axis rule are never both down.
C6_NeverBothDown ==
    (config = MainConfig /\ last.op = "dispatch") =>
        \A m \in AxisRules(config) :
            ~(IsDown(key_state, m.low_key) /\ IsDown(key_state, m.high_key))

\* The value an axis rule read in the call recorded in c.
AxisValueOf(c) == map_or(0, c.data)

\* C7: an axis rule evaluated at exactly its threshold or its negation
\* leaves both its keys up and emits no key-down; a key-down is emitted only
\* for a value strictly below -threshold or strictly above threshold.
C7_DeadZoneBoundary ==
    last.op = "axis" =>
        LET m == last.rule
            v == AxisValueOf(last)
        IN  /\ (v = m.threshold \/ v = -m.threshold) =>
                 /\ ~IsDown(key_state, m.low_key)
                 /\ ~IsDown(key_state, m.high_key)
                 /\ ~HasDir(out, "down")
            /\ HasDir(out, "down") => (v < -m.threshold \/ v > m.threshold)

\* An axis rule was evaluated at exactly its threshold and released a key.
C7_Witness ==
    /\ last.op = "axis"
    /\ AxisValueOf(last) = last.rule.threshold
    /\ HasDir(out, "up")

\* The ledger entry of key (presence and value) is the same in ks1 and ks2.
SameEntry(ks1, ks2, key) ==
    /\ (key \in DOMAIN ks1) <=> (key \in DOMAIN ks2)
    /\ key \in DOMAIN ks1 => ks1[key] = ks2[key]

\* C8: an axis rule evaluated strictly below -threshold requests
\* press(low) alone: nothing is emitted for the high key and its entry is
\* unchanged; strictly above threshold, the same with low and high swapped;
\* a key-up is emitted only in the dead-zone branch.
C8_PressLeavesOpposite ==
    [][last'.op = "axis" =>
        LET m == last'.rule
            v == AxisValueOf(last')
        IN  /\ v < -m.threshold =>
                 /\ out' = IF IsDown(key_state, m.low_key) THEN <<>>
                           ELSE <<KeyPress(m.low_key)>>
                 /\ SameEntry(key_state, key_state', m.high_key)
            /\ v > m.threshold =>
                 /\ out' = IF IsDown(key_state, m.high_key) THEN <<>>
                           ELSE <<KeyPress(m.high_key)>>
                 /\ SameEntry(key_state, key_state', m.low_key)
            /\ HasDir(out', "up") => (v >= -m.threshold /\ v <= m.threshold)]_vars

\* An axis rule pressed its low key while its high key was down, and the
\* high key is still down.
C8_Witness ==
    /\ last.op = "axis"
    /\ AxisValueOf(last) < -last.rule.threshold
    /\ out = <<KeyPress(last.rule.low_key)>>
    /\ IsDown(key_state, last.rule.high_key)

\* C9: after a button rule is evaluated, its key is down exactly when the
\* button's value (0.0 when the button is not reported) is above 0.5;
\* otherwise a key-up is emitted if the key was down, and nothing if not.
C9_ButtonValueBased ==
    [][last'.op = "button" =>
        LET m == last'.rule
            v == map_or(0, last'.data)
        IN  /\ IsDown(key_state', m.key) <=> v > ButtonThreshold
            /\ v <= ButtonThreshold =>
                 out' = IF IsDown(key_state, m.key) THEN <<KeyRelease(m.key)>>
                        ELSE <<>>
            /\ v > ButtonThreshold =>
                 out' = IF IsDown(key_state, m.key) THEN <<>>
                        ELSE <<KeyPress(m.key)>>]_vars

\* A button rule read exactly 0.5 while its key was down and released it.
C9_Witness ==
    /\ last.op = "button"
    /\ last.data = Some(ButtonThreshold)
    /\ out = <<KeyRelease(last.rule.key)>>

\* The keys of each rule of a controller mapping, rule by rule.
RuleKeySets(cm) ==
    [i \in 1 .. Len(cm.axis_mappings) |->
        {cm.axis_mappings[i].low_key, cm.axis_mappings[i].high_key}]
    \o [i \in 1 .. Len(cm.button_mappings) |-> {cm.button_mappings[i].key}]

RECURSIVE TableKeySets(_)
TableKeySets(cms) ==
    IF cms = <<>> THEN <<>>
    ELSE RuleKeySets(Head(cms)) \o TableKeySets(Tail(cms))

\* No key is mapped by two rules of the table.
DistinctKeys(cfg) ==
    LET ks == TableKeySets(cfg.controller_mappings)
    IN  \A i, j \in 1 .. Len(ks) : i # j => ks[i] \cap ks[j] = {}

\* A dispatch that follows a dispatch and finds every gamepad's values as
\* they were emits nothing and leaves the ledger as it was.
Debounced ==
    (last.op = "dispatch" /\ last'.op = "dispatch" /\ gamepads' = gamepads) =>
        (out' = <<>> /\ key_state' = key_state)

\* C10, as stated: for every mapping table, a dispatch with no value
\* changed since the dispatch before emits nothing and leaves the ledger
\* unchanged.
C10_Original == [][Debounced]_vars

\* C10, amended: the same for every mapping table in which no key is mapped
\* by two rules.
C10_Amended == [][DistinctKeys(config) => Debounced]_vars

\* A dispatch found the values unchanged while a key was down, under a table
\* without shared keys.
C10_Witness ==
    /\ DistinctKeys(config)
    /\ last.op = "dispatch"
    /\ last.same
    /\ out = <<>>
    /\ \E k \in Keys : IsDown(key_state, k)

\* The ids the controller mappings of a table are bound to.
ControllerIds(cfg) ==
    {cm.controller_id : cm \in Range(cfg.controller_mappings)}

\* C11: a controller mapping applied to a gamepad whose id is not its
\* controller_id emits nothing and leaves the ledger as it was, whatever the
\* gamepad reports; so does the whole table applied to a gamepad whose id no
\* mapping has.
C11_DeviceIsolation ==
    [][/\ (last'.op = "controller"
              /\ last'.cm.controller_id # last'.gamepad.id) =>
             (out' = <<>> /\ key_state' = key_state /\ sink' = sink)
       /\ (last'.op = "table"
              /\ last'.gamepad.id \notin ControllerIds(config)) =>
             (out' = <<>> /\ key_state' = key_state /\ sink' = sink)]_vars

\* A mapping was applied to a gamepad of another id whose stick and button
\* are both pressed, and no key is down.
C11_Witness ==
    /\ last.op = "controller"
    /\ last.cm.controller_id # last.gamepad.id
    /\ last.cm.button_mappings # <<>>
    /\ last.gamepad.buttons["South"] = Some(10)
    /\ last.gamepad.axes["LeftStickX"] = Some(5)
    /\ \A k \in Keys : ~IsDown(key_state, k)

\* C16: an axis rule evaluated on a gamepad that does not report its axis
\* reads 0.0 and takes the dead-zone branch: both its keys are up afterwards
\* and no key-down is emitted; a key that was down gets its key-up.
C16_MissingAxisNeutral ==
    [][(last'.op = "axis" /\ last'.data = None) =>
        LET m == last'.rule
        IN  /\ ~IsDown(key_state', m.low_key)
            /\ ~IsDown(key_state', m.high_key)
            /\ ~HasDir(out', "down")
            /\ \A k \in {m.low_key, m.high_key} :
                  IsDown(key_state, k) <=>
                      \E i \in 1 .. Len(out') : out'[i] = KeyRelease(k)]_vars

\* An axis rule found its axis missing while one of its keys was down and
\* released it.
C16_Witness ==
    /\ last.op = "axis"
    /\ last.data = None
    /\ HasDir(out, "up")

\* C17: key_press_once and key_release_once on key k leave every other
\* key's entry (presence and value) as it was and emit nothing for it; when
\* they emit nothing, the ledger is as it was or k, absent before, is now
\* present and false.
C17_OnlyOwnKey ==
    [][last'.op \in {"press", "release"} =>
        LET k == last'.key
        IN  /\ \A o \in Keys \ {k} :
                  /\ SameEntry(key_state, key_state', o)
                  /\ sink'[o] = sink[o]
                  /\ \A i \in 1 .. Len(out') : out'[i].key # o
            /\ out' = <<>> =>
                  \/ key_state' = key_state
                  \/ /\ k \notin DOMAIN key_state
                     /\ key_state' = or_insert(key_state, k, FALSE)]_vars

\* A release of an absent key, which is now present and false, while another
\* key is down.
C17_Witness ==
    /\ last.op = "release"
    /\ ~last.was_down
    /\ out = <<>>
    /\ last.key \in DOMAIN key_state
    /\ sink[last.key] = "none"
    /\ \E o \in Keys \ {last.key} : IsDown(key_state, o)

\* The rules of a controller mapping in configured order: axis rules, then
\* button rules.
RulesOf(cm) ==
    [i \in 1 .. Len(cm.axis_mappings) |->
        [kind |-> "axis", m |-> cm.axis_mappings[i]]]
    \o [i \in 1 .. Len(cm.button_mappings) |->
        [kind |-> "button", m |-> cm.button_mappings[i]]]

ApplyRule(st, r, gamepad) ==
    IF r.kind = "axis" THEN AxisMapping_apply_mapping(st, r.m, gamepad)
    ELSE ButtonMapping_apply_mapping(st, r.m, gamepad)

\* The rules rs evaluated in the order rs[p[from]], rs[p[from + 1]], ...
RECURSIVE ApplyPermuted(_, _, _, _, _)
ApplyPermuted(st, rs, p, from, gamepad) ==
    IF from > Len(rs) THEN st
    ELSE ApplyPermuted(ApplyRule(st, rs[p[from]], gamepad), rs, p, from + 1,
                       gamepad)

\* What a run of rules leaves: the ledger, the sink, the set of emissions.
Outcome(st) == <<st.key_state, st.sink, Range(st.out)>>

\* The numbers of rules the controller mappings of the tables have.
RuleCounts ==
    {Len(RulesOf(cm)) :
        cm \in UNION {Range(cfg.controller_mappings) : cfg \in MappingTables}}

\* The orders in which n rules can be evaluated.
Orders ==
    [n \in RuleCounts |->
        {p \in [1 .. n -> 1 .. n] : \A i, j \in 1 .. n : i # j => p[i] # p[j]}]

\* No key is mapped by two rules of the controller mapping.
DistinctKeysIn(cm) ==
    LET ks == RuleKeySets(cm)
    IN  \A i, j \in 1 .. Len(ks) : i # j => ks[i] \cap ks[j] = {}

\* C15: a controller mapping whose rules map pairwise different keys,
\* applied to a gamepad of its id, leaves the ledger and the set of emitted
\* transitions that its rules evaluated in any other order leave.
C15_RuleOrder ==
    [][(/\ last'.op = "controller"
        /\ last'.cm.controller_id = last'.gamepad.id
        /\ DistinctKeysIn(last'.cm)) =>
        LET rs == RulesOf(last'.cm)
        IN  \A p \in Orders[Len(rs)] :
                Outcome(ApplyPermuted(State(key_state, sink), rs, p, 1,
                                      last'.gamepad))
                    = <<key_state', sink', Range(out')>>]_vars

\* A mapping of three rules with different keys was applied and all three
\* emitted.
C15_Witness ==
    /\ last.op = "controller"
    /\ last.cm.controller_id = last.gamepad.id
    /\ DistinctKeysIn(last.cm)
    /\ Len(RulesOf(last.cm)) >= 3
    /\ Len(out) >= 3

\* C13: when the injection fails, key_press_once and key_release_once
\* still flip the entry and make one attempt only, nothing reaches the
\* operating system, and a later call for the same direction attempts nothing
\* although the key at the operating system never followed.
C13_FailureIgnored ==
    [][last'.op \in {"press", "release"} =>
        LET k == last'.key
            wants == IF last'.op = "press" THEN "down" ELSE "up"
            ev == IF last'.op = "press" THEN KeyPress(k) ELSE KeyRelease(k)
            flips == IsDown(key_state, k) # (last'.op = "press")
        IN  /\ (last'.failed /\ flips) =>
                 /\ out' = <<ev>>
                 /\ IsDown(key_state', k) = (last'.op = "press")
                 /\ os'[k] = os[k]
            /\ ~flips => (out' = <<>> /\ os' = os)
            /\ (~last'.failed /\ flips) => os'[k] = wants]_vars

\* The second of two presses in a row attempted nothing, the ledger holds
\* the key down and the operating system never saw it go down.
C13_Witness ==
    /\ last.op = "press"
    /\ last.again
    /\ out = <<>>
    /\ IsDown(key_state, last.key)
    /\ os[last.key] = "up"

\* The calls of ControllerMapping::apply_mapping one turn of the loop owes:
\* the gamepads in the order of their ids, and for each the mappings in the
\* order of the table, the rules applied where the two ids are equal.
ExpectedEvals(cfg) ==
    LET cms == cfg.controller_mappings
        m == Len(cms)
    IN  [n \in 1 .. (MaxGamepads * m) |->
            LET id == (n - 1) \div m
                cm == cms[((n - 1) % m) + 1]
            IN  [gamepad |-> id, cm |-> cm,
                 applied |-> (cm.controller_id = id)]]

HeldDown(ks) == {k \in Keys : IsDown(ks, k)}

\* The keys asserted at a sink: those whose last transition was a press.
Asserted(sk) == {k \in Keys : sk[k] = "down"}

\* Both loops hold the same keys down and assert the same keys.
SameAssertions ==
    /\ HeldDown(key_state) = HeldDown(discrete.key_state)
    /\ Asserted(sink) = Asserted(discrete.sink)

\* Every mapping sits at the table position of its controller_id.
Aligned(cfg) ==
    \A i \in DOMAIN cfg.controller_mappings :
        cfg.controller_mappings[i].controller_id = i - 1

====
